---- MODULE Spec2Model ----
(***************************************************************************)
(* Model of base/models.py of memex-explorer: the Service / ServicePort /  *)
(* Container records and the static methods of Container that generate the *)
(* docker-compose manifest, start the containers, discover the published   *)
(* host ports and publish them in the nginx reverse-proxy configuration.   *)
(*                                                                         *)
(* Conventions.  A nullable / blank text field is the empty string "" (the *)
(* code only tests truthiness).  A nullable integer is <<>> (None) or <<n>>.*)
(* A Python call is an operator that yields [raised, value]: raised is ""  *)
(* for a normal return and the exception class name otherwise.             *)
(***************************************************************************)
EXTENDS Integers, Sequences, FiniteSets, TLC

\* ------------------------------------------------------------------ bounds
\* rows the ServicePort table may hold
MaxPortRows == 2
\* pieces in which the buffered write of a rendered file reaches the disk
NumChunks == 2

ServiceIds == {1, 2}
ContainerIds == {1, 2}
PortNumbers == {80, 443}

None == <<>>
Some(x) == <<x>>

Ok(v) == [raised |-> "", value |-> v]
Raise(e) == [raised |-> e, value |-> <<>>]

VARIABLES
    service,     \* Service rows: id -> [name, image, build, command]
    ports,       \* ServicePort rows: set of [service, internal_port, expose_publicly]
    container,   \* Container rows: id -> [service, running, high_port, public_path_base]
    files,       \* path -> [exists, data]: data is the sequence of chunks on disk
    op,          \* the static method of Container called last
    pc,          \* where that call stands: "idle" when it has ended
    args,        \* its port_mappings argument: [given, mappings]
    rendered,    \* what fill_template is writing: the chunks of template.render()
    before,      \* content of the destination when the call began
    log,         \* steps and external commands of the call: <<[cmd, ok], ...>>
    outcome,     \* "" while running, "returned", or the exception that ended the call
    retval,      \* set of (urlbase, port) pairs returned by get_port_mappings
    dockerPort,  \* what `docker port <name>` answers for each container in this call
    gens,        \* outcomes of generate_container_context on the present snapshot
    lastStore    \* the last attempt to store a ServicePort through validation

vars == <<service, ports, container, files, op, pc, args, rendered, before,
          log, outcome, retval, dockerPort, gens, lastStore>>

\* ------------------------------------------------------------ paths
COMPOSE_DEST == "base/docker-compose.yml"
NGINX_DEST == "base/nginx-reverse-proxy.conf"
NGINX_COPY == "/etc/nginx/sites-enabled/default"
COMPOSE_TEMPLATE == "docker-compose.yml.jinja2"
NGINX_TEMPLATE == "nginx-reverse-proxy.conf.jinja2"
Paths == {COMPOSE_DEST, NGINX_DEST, NGINX_COPY}

NoFile == [exists |-> FALSE, data |-> <<>>]

\* ------------------------------------------------------------ helpers
\* all orders in which a query without order_by may return the rows of S
RECURSIVE Orders(_)
Orders(S) ==
    IF S = {} THEN {<<>>}
    ELSE UNION {{<<x>> \o rest : rest \in Orders(S \ {x})} : x \in S}

\* str.format with automatic field numbering: nfields "{}" fields, positional fmtargs
Format(nfields, fmtargs) ==
    IF nfields > Len(fmtargs) THEN Raise("IndexError")
    ELSE Ok(SubSeq(fmtargs, 1, nfields))

\* Container.__slug: "{}{}".format(service.name)
Slug(svc) == Format(2, <<svc.name>>)

\* Container.slug
ContainerSlug(c) == Slug(service[container[c].service])

\* "/{}".format(name), on the names the model uses
SlashName(name) == IF name = "web" THEN "/web" ELSE "/db"

\* Container.public_urlbase
PublicUrlbase(c, conts) ==
    IF conts[c].public_path_base # "" THEN conts[c].public_path_base
    ELSE SlashName(service[conts[c].service].name)

\* Container.docker_name: "{}_{}_1".format(dirname, self.slug())
DockerName(c) ==
    LET s == ContainerSlug(c)
    IN  IF s.raised # "" THEN s ELSE Format(2, <<"base", s.value>>)

\* ServicePort.objects.filter(service=s).values_list('internal_port')
InternalPorts(s) == {r.internal_port : r \in {q \in ports : q.service = s}}

\* Container.context_dict; an absent 'image' / 'build' key is "".  The keys
\* 'volumes', 'links' and 'environment_variables' are built after 'slug' in the
\* same dict display and are read by no property here; they are left out.
ContextDict(c) ==
    LET svc == service[container[c].service]
        s == ContainerSlug(c)
    IN  IF s.raised # "" THEN s
        ELSE IF svc.image # ""
             THEN Ok([slug |-> s.value, command |-> svc.command,
                      ports |-> InternalPorts(container[c].service),
                      image |-> svc.image, build |-> ""])
        ELSE IF svc.build # ""
             THEN Ok([slug |-> s.value, command |-> svc.command,
                      ports |-> InternalPorts(container[c].service),
                      image |-> "", build |-> svc.build])
        ELSE LET s2 == ContainerSlug(c)
             IN  IF s2.raised # "" THEN s2 ELSE Raise("ValueError")

\* Container.objects.filter(running = True)
RunningContainers == {c \in ContainerIds : container[c].running}

\* the list comprehension of generate_container_context over the rows in `order`
RECURSIVE ContextList(_, _)
ContextList(order, i) ==
    IF i > Len(order) THEN Ok(<<>>)
    ELSE LET d == ContextDict(order[i])
         IN  IF d.raised # "" THEN d
             ELSE LET rest == ContextList(order, i + 1)
                  IN  IF rest.raised # "" THEN rest
                      ELSE Ok(<<d.value>> \o rest.value)

\* Container.generate_container_context, the query answering in `order`
GenerateContainerContextValue(order) == ContextList(order, 1)

\* template.render(context_dict): the text, as the chunks the write delivers
Render(template, ctx) ==
    [i \in 1..NumChunks |-> [template |-> template, context |-> ctx, part |-> i]]

Complete(text) == [exists |-> TRUE, data |-> text]

\* ------------------------------------------------------------ initial state
\* ServicePort tables the calls start from; each can be stored row by row through
\* validation, beginning with the empty table
Row(s, p, b) == [service |-> s, internal_port |-> p, expose_publicly |-> b]
InitialPorts ==
    { {},
      {Row(1, 80, TRUE)},
      {Row(1, 80, TRUE), Row(1, 443, FALSE)},
      {Row(1, 80, TRUE), Row(2, 443, TRUE)} }

TypeService == [name : {"web", "db"}, image : {"", "nginx"},
                build : {"", "./app"}, command : {"run"}]

Init ==
    /\ service \in [ServiceIds -> TypeService]
    /\ service[1].name = "web" /\ service[2].name = "db"
    /\ service[2].image = "nginx" /\ service[2].build = ""
    /\ ports \in InitialPorts
    /\ container \in [ContainerIds -> [service : ServiceIds, running : BOOLEAN,
                                       high_port : {None},
                                       public_path_base : {"", "/admin"}]]
    /\ \A c \in ContainerIds : container[c].service = c
    /\ container[1].public_path_base = ""
    /\ container[2].public_path_base = "/admin"
    /\ files = [p \in Paths |-> NoFile]
    /\ op = "none"
    /\ pc = "idle"
    /\ args = [given |-> TRUE, mappings |-> {}]
    /\ rendered = <<>>
    /\ before = NoFile
    /\ log = <<>>
    /\ outcome = ""
    /\ retval = {}
    /\ dockerPort = [c \in ContainerIds |-> [exit |-> 0, lines |-> <<>>]]
    /\ gens = <<>>
    /\ lastStore = [kind |-> "none", service |-> 1, internal_port |-> 80,
                    expose_publicly |-> FALSE, hadPublic |-> FALSE,
                    duplicate |-> FALSE, accepted |-> FALSE, error |-> "",
                    portsBefore |-> {}]

\* ------------------------------------------------------------ ServicePort
\* ServicePort.clean: ValidationError is not imported by the module, so the
\* raise statement ends in a NameError
ServicePortClean(s) ==
    IF \E r \in ports : r.service = s /\ r.expose_publicly
    THEN Raise("NameError")
    ELSE Ok(<<>>)

\* Meta.unique_together = ('service', 'internal_port'), checked by validate_unique
UniqueTogether(s, p, others) == ~ \E r \in others : r.service = s /\ r.internal_port = p

\* a new ServicePort goes through clean and validate_unique, then is saved
CreateServicePort ==
    \E s \in ServiceIds, p \in PortNumbers, b \in BOOLEAN :
        /\ Cardinality(ports) < MaxPortRows
        /\ LET cl == ServicePortClean(s)
               uniq == UniqueTogether(s, p, ports)
               accepted == cl.raised = "" /\ uniq
           IN  /\ ports' = IF accepted
                           THEN ports \cup {[service |-> s, internal_port |-> p,
                                             expose_publicly |-> b]}
                           ELSE ports
               /\ gens' = IF accepted THEN <<>> ELSE gens
               /\ lastStore' = [kind |-> "create", service |-> s, internal_port |-> p,
                                expose_publicly |-> b,
                                hadPublic |-> \E r \in ports : r.service = s /\ r.expose_publicly,
                                duplicate |-> ~uniq, accepted |-> accepted,
                                error |-> cl.raised, portsBefore |-> ports]
        /\ UNCHANGED <<service, container, files, op, pc, args, rendered, before,
                       log, outcome, retval, dockerPort>>

\* a stored ServicePort is edited (its expose_publicly flag) and validated again
UpdateServicePort ==
    \E r \in ports :
        /\ LET s == r.service
               b == ~r.expose_publicly
               cl == ServicePortClean(s)
               accepted == cl.raised = "" /\ UniqueTogether(s, r.internal_port, ports \ {r})
           IN  /\ ports' = IF accepted
                           THEN (ports \ {r}) \cup {[r EXCEPT !.expose_publicly = b]}
                           ELSE ports
               /\ gens' = IF accepted THEN <<>> ELSE gens
               /\ lastStore' = [kind |-> "update", service |-> s,
                                internal_port |-> r.internal_port,
                                expose_publicly |-> b,
                                hadPublic |-> \E q \in ports \ {r} :
                                                 q.service = s /\ q.expose_publicly,
                                duplicate |-> FALSE, accepted |-> accepted,
                                error |-> cl.raised, portsBefore |-> ports]
        /\ UNCHANGED <<service, container, files, op, pc, args, rendered, before,
                       log, outcome, retval, dockerPort>>

\* ------------------------------------------------------------ manifest
\* a static method of Container is entered with argument a
CallStart(o, a) ==
    /\ op' = o
    /\ args' = a

\* the entry a step of a call leaves in the log
Step(cmd, ok) == [cmd |-> cmd, ok |-> ok]

\* Container.generate_container_context called on its own
GenerateContainerContext ==
    /\ pc = "idle"
    /\ Len(gens) < 2
    /\ \E order \in Orders(RunningContainers) :
           gens' = Append(gens, GenerateContainerContextValue(order))
    /\ UNCHANGED <<service, ports, container, files, op, pc, args, rendered, before,
                   log, outcome, retval, dockerPort, lastStore>>

\* Container.create_containers up to the open() in fill_template: the context
\* argument is evaluated first, then the template is read and rendered
CreateContainers ==
    /\ pc = "idle"
    /\ CallStart("create_containers", [given |-> TRUE, mappings |-> {}])
    /\ before' = files[COMPOSE_DEST]
    /\ retval' = {}
    /\ \E order \in Orders(RunningContainers), renderOk \in BOOLEAN :
           LET ctx == GenerateContainerContextValue(order)
           IN  IF ctx.raised # ""
               THEN /\ outcome' = ctx.raised
                    /\ log' = <<>>
                    /\ UNCHANGED <<pc, rendered>>
               ELSE IF ~renderOk
               THEN /\ outcome' = "RenderError"
                    /\ log' = <<Step("fill_template", FALSE)>>
                    /\ UNCHANGED <<pc, rendered>>
               ELSE /\ outcome' = ""
                    /\ log' = <<>>
                    /\ pc' = "open"
                    /\ rendered' = Render(COMPOSE_TEMPLATE, ctx.value)
    /\ UNCHANGED <<service, ports, container, files, dockerPort, gens, lastStore>>

\* destination of the fill_template of the running call
Destination == IF op = "create_containers" THEN COMPOSE_DEST ELSE NGINX_DEST

\* fill_template: open(destination, 'w') truncates the file
FillOpen ==
    /\ pc = "open"
    /\ files' = [files EXCEPT ![Destination] = [exists |-> TRUE, data |-> <<>>]]
    /\ pc' = "write"
    /\ UNCHANGED <<service, ports, container, op, args, rendered, before, log,
                   outcome, retval, dockerPort, gens, lastStore>>

\* fill_template: f.write / f.flush deliver the text chunk by chunk; the with
\* block closes the file after the last one
FillWrite ==
    /\ pc = "write"
    /\ LET n == Len(files[Destination].data)
       IN  /\ n < Len(rendered)
           /\ files' = [files EXCEPT ![Destination].data = Append(@, rendered[n + 1])]
           /\ IF n + 1 = Len(rendered)
              THEN /\ pc' = "command"
                   /\ log' = Append(log, Step("fill_template", TRUE))
              ELSE UNCHANGED <<pc, log>>
    /\ UNCHANGED <<service, ports, container, op, args, rendered, before,
                   outcome, retval, dockerPort, gens, lastStore>>

\* subprocess.check_output: raises CalledProcessError on a non-zero exit status
CheckOutput(ok) == IF ok THEN Ok(<<>>) ELSE Raise("CalledProcessError")

\* create_containers: sudo docker-compose -f <manifest> up -d --no-recreate
ComposeUp ==
    /\ op = "create_containers"
    /\ pc = "command"
    /\ \E ok \in BOOLEAN :
           LET r == CheckOutput(ok)
           IN  /\ log' = Append(log, Step("up", ok))
               /\ outcome' = IF r.raised # "" THEN r.raised ELSE "returned"
    /\ pc' = "idle"
    /\ UNCHANGED <<service, ports, container, files, op, args, rendered, before,
                   retval, dockerPort, gens, lastStore>>

\* ------------------------------------------------------------ discovery
TCP_MARK == "/tcp -> 0.0.0.0:"
Line(i, e) == [internal |-> i, sep |-> TCP_MARK, external |-> e]

\* answers of `sudo docker port <name>`: exit status and output lines
Failing == [exit |-> 1, lines |-> <<>>]
OneBinding(i, e) ==
    [exit |-> 0, lines |-> <<[internal |-> 0, sep |-> "garbage line", external |-> 0],
                             Line(i, e)>>]
TwoBindings == [exit |-> 0, lines |-> <<Line(80, 32768), Line(443, 32769)>>]

\* what the runtime may answer for the two containers during one discovery
Runtimes ==
    { [c \in ContainerIds |-> IF c = 1 THEN TwoBindings ELSE OneBinding(443, 32770)],
      [c \in ContainerIds |-> IF c = 1 THEN Failing ELSE OneBinding(443, 32770)],
      [c \in ContainerIds |-> IF c = 1 THEN OneBinding(80, 32768) ELSE Failing] }

\* dict(ServicePort.objects.filter(expose_publicly=True)
\*          .values_list('service_id', 'internal_port'))
ServicePortsDict ==
    [s \in {r.service : r \in {q \in ports : q.expose_publicly}} |->
        (CHOOSE r \in ports : r.service = s /\ r.expose_publicly).internal_port]

\* Container.objects.filter(service_id__in = service_ports.keys()).filter(running = True)
EligibleContainers ==
    {c \in ContainerIds : container[c].running
                          /\ container[c].service \in DOMAIN ServicePortsDict}

\* the inner loop of get_port_mappings over the lines of one answer
RECURSIVE LineLoop(_, _, _, _, _)
LineLoop(c, lines, j, conts, pm) ==
    IF j > Len(lines) THEN [conts |-> conts, pm |-> pm]
    ELSE IF lines[j].sep = TCP_MARK
            /\ ServicePortsDict[conts[c].service]
                   \in {ServicePortsDict[k] : k \in DOMAIN ServicePortsDict}
         THEN LET saved == [conts EXCEPT ![c].high_port = Some(lines[j].external)]
              IN  LineLoop(c, lines, j + 1, saved,
                           pm \cup {<<PublicUrlbase(c, saved), lines[j].external>>})
         ELSE LineLoop(c, lines, j + 1, conts, pm)

\* the outer loop of get_port_mappings over the containers in `order`
RECURSIVE ContainerLoop(_, _, _, _, _)
ContainerLoop(order, i, runtime, conts, pm) ==
    IF i > Len(order) THEN [raised |-> "", conts |-> conts, pm |-> pm]
    ELSE LET c == order[i]
             name == DockerName(c)
         IN  IF name.raised # ""
             THEN [raised |-> name.raised, conts |-> conts, pm |-> {}]
             ELSE LET out == CheckOutput(runtime[c].exit = 0)
                  IN  IF out.raised # ""
                      THEN [raised |-> out.raised, conts |-> conts, pm |-> {}]
                      ELSE LET r == LineLoop(c, runtime[c].lines, 1, conts, pm)
                           IN  ContainerLoop(order, i + 1, runtime, r.conts, r.pm)

\* Container.get_port_mappings, the query answering in `order`
GetPortMappingsValue(order, runtime) == ContainerLoop(order, 1, runtime, container, {})

\* Container.get_port_mappings called on its own
GetPortMappings ==
    /\ pc = "idle"
    /\ CallStart("get_port_mappings", [given |-> TRUE, mappings |-> {}])
    /\ log' = <<>>
    /\ \E order \in Orders(EligibleContainers), runtime \in Runtimes :
           LET r == GetPortMappingsValue(order, runtime)
           IN  /\ dockerPort' = runtime
               /\ container' = r.conts
               /\ retval' = r.pm
               /\ outcome' = IF r.raised # "" THEN r.raised ELSE "returned"
    /\ UNCHANGED <<service, ports, files, pc, rendered, before, gens, lastStore>>

\* ------------------------------------------------------------ publish
\* the port_mappings a caller hands to map_public_ports; given = FALSE is None
PortMappingArgs ==
    { [given |-> FALSE, mappings |-> {}],
      [given |-> TRUE, mappings |-> {}],
      [given |-> TRUE, mappings |-> {<<"/web", 32768>>}],
      [given |-> TRUE, mappings |-> {<<"/web", 32768>>, <<"/admin", 32769>>}] }

\* Container.generate_nginx_context for the mappings iterated in `order`
GenerateNginxContext(order) ==
    [portmaps |-> [i \in 1..Len(order) |-> [port |-> order[i][2], urlbase |-> order[i][1]]],
     root_port |-> "8000"]

\* generate_nginx_context: port_mappings as given, or discovered when it is None
Discovered(a) ==
    IF a.given
    THEN {[raised |-> "", conts |-> container, pm |-> a.mappings, runtime |-> dockerPort]}
    ELSE {LET r == GetPortMappingsValue(o, rt)
          IN  [raised |-> r.raised, conts |-> r.conts, pm |-> r.pm, runtime |-> rt] :
             o \in Orders(EligibleContainers), rt \in Runtimes}

\* Container.map_public_ports up to the open() in fill_template
MapPublicPorts ==
    /\ pc = "idle"
    /\ before' = files[NGINX_DEST]
    /\ \E a \in PortMappingArgs, renderOk \in BOOLEAN :
        \E disc \in Discovered(a) :
               /\ CallStart("map_public_ports", a)
               /\ dockerPort' = disc.runtime
               /\ container' = disc.conts
               /\ retval' = disc.pm
               /\ IF disc.raised # ""
                  THEN /\ outcome' = disc.raised
                       /\ log' = <<>>
                       /\ UNCHANGED <<pc, rendered>>
                  ELSE IF ~renderOk
                  THEN /\ outcome' = "RenderError"
                       /\ log' = <<Step("fill_template", FALSE)>>
                       /\ UNCHANGED <<pc, rendered>>
                  ELSE /\ outcome' = ""
                       /\ log' = <<>>
                       /\ pc' = "open"
                       /\ \E morder \in Orders(disc.pm) :
                              rendered' = Render(NGINX_TEMPLATE, GenerateNginxContext(morder))
    /\ UNCHANGED <<service, ports, files, gens, lastStore>>

\* the copy step if it ran the command without checking its exit status
CopyConfigUnchecked ==
    /\ op = "map_public_ports"
    /\ pc = "command"
    /\ \E ok \in BOOLEAN :
           /\ log' = Append(log, Step("cp", ok))
           /\ files' = IF ok THEN [files EXCEPT ![NGINX_COPY] = files[NGINX_DEST]]
                             ELSE files
    /\ pc' = "restart"
    /\ UNCHANGED <<service, ports, container, op, args, rendered, before, outcome,
                   retval, dockerPort, gens, lastStore>>

\* map_public_ports: sudo cp <rendered config> /etc/nginx/sites-enabled/default
CopyConfig ==
    /\ op = "map_public_ports"
    /\ pc = "command"
    /\ \E ok \in BOOLEAN :
           LET r == CheckOutput(ok)
           IN  /\ log' = Append(log, Step("cp", ok))
               /\ files' = IF ok THEN [files EXCEPT ![NGINX_COPY] = files[NGINX_DEST]]
                                 ELSE files
               /\ IF r.raised # ""
                  THEN outcome' = r.raised /\ pc' = "idle"
                  ELSE outcome' = outcome /\ pc' = "restart"
    /\ UNCHANGED <<service, ports, container, op, args, rendered, before,
                   retval, dockerPort, gens, lastStore>>

\* map_public_ports: sudo service nginx restart
RestartNginx ==
    /\ op = "map_public_ports"
    /\ pc = "restart"
    /\ \E ok \in BOOLEAN :
           LET r == CheckOutput(ok)
           IN  /\ log' = Append(log, Step("restart", ok))
               /\ outcome' = IF r.raised # "" THEN r.raised ELSE "returned"
    /\ pc' = "idle"
    /\ UNCHANGED <<service, ports, container, files, op, args, rendered, before,
                   retval, dockerPort, gens, lastStore>>

\* ------------------------------------------------------------ specifications
\* manifest generation and create_containers
Next ==
    \/ GenerateContainerContext
    \/ CreateContainers
    \/ FillOpen
    \/ FillWrite
    \/ ComposeUp

Spec == Init /\ [][Next]_vars

\* the ServicePort table edited through validation
PortNext ==
    \/ CreateServicePort
    \/ UpdateServicePort

PortSpec == Init /\ [][PortNext]_vars

\* port discovery
DiscoverNext == GetPortMappings

DiscoverSpec == Init /\ [][DiscoverNext]_vars

\* publishing the discovered ports in the proxy configuration
PublishNext ==
    \/ MapPublicPorts
    \/ FillOpen
    \/ FillWrite
    \/ CopyConfig
    \/ RestartNginx

PublishSpec == Init /\ [][PublishNext]_vars

\* ------------------------------------------------------------ properties
ImageSet(s) == service[s].image # ""
BuildSet(s) == service[s].build # ""
ExactlyOne(s) == ImageSet(s) # BuildSet(s)
AllRunningExactlyOne == \A c \in RunningContainers : ExactlyOne(container[c].service)
SomeRunningNeither ==
    \E c \in RunningContainers :
        ~ImageSet(container[c].service) /\ ~BuildSet(container[c].service)
SomeRunningBoth ==
    \E c \in RunningContainers :
        ImageSet(container[c].service) /\ BuildSet(container[c].service)
NoUpInvoked == \A i \in DOMAIN log : log[i].cmd # "up"

\* entry e of a manifest context describes container c
IsEntryOf(e, c) ==
    LET s == container[c].service
    IN  /\ e.ports = InternalPorts(s)
        /\ e.image = service[s].image
        /\ e.build = IF ImageSet(s) THEN "" ELSE service[s].build

\* the context v holds one entry for each running container and nothing else
OneEntryPerRunning(v) ==
    /\ Len(v) = Cardinality(RunningContainers)
    /\ \E f \in [RunningContainers -> DOMAIN v] :
           /\ \A c, d \in RunningContainers : f[c] = f[d] => c = d
           /\ \A c \in RunningContainers : IsEntryOf(v[f[c]], c)

\* C1: on a snapshot in which every running container's service has exactly one
\* of image / build, generate_container_context succeeds and returns one entry
\* for each running container and none for the others.
C1_GenerationSucceeds ==
    \A g \in DOMAIN gens :
        AllRunningExactlyOne
        => gens[g].raised = "" /\ OneEntryPerRunning(gens[g].value)

\* C2: when a running container's service has neither image nor build,
\* create_containers ends with the configuration error (the ValueError of
\* context_dict) before the manifest is touched and before `up` is invoked.
C2_NeitherFailsBeforeWrite ==
    (op = "create_containers" /\ SomeRunningNeither)
    => /\ pc = "idle"
       /\ outcome = "ValueError"
       /\ files[COMPOSE_DEST] = before
       /\ NoUpInvoked

\* C3: when a running container's service has both image and build, manifest
\* generation is rejected with the configuration error before any external
\* invocation, and no entry carrying only one of the two is produced.
C3_BothRejected ==
    SomeRunningBoth
    => /\ \A g \in DOMAIN gens : gens[g].raised = "ValueError"
       /\ op = "create_containers" => (outcome = "ValueError" /\ log = <<>>)

\* every service has at most one publicly exposed port
AtMostOnePublic ==
    \A r, q \in ports :
        (r.service = q.service /\ r.expose_publicly /\ q.expose_publicly) => r = q

\* C4: every service has at most one public ServicePort; storing a second public
\* port for a service that has one is rejected and leaves the table as it was,
\* storing a first public port or a non-public port is accepted.
C4_OnePublicPortPerService ==
    /\ AtMostOnePublic
    /\ (lastStore.kind # "none" /\ ~lastStore.duplicate)
       => /\ lastStore.accepted <=> ~(lastStore.expose_publicly /\ lastStore.hadPublic)
          /\ ~lastStore.accepted => ports = lastStore.portsBefore

\* the host ports the runtime reports for internal port p of container c
ReportedFor(c, p) ==
    {dockerPort[c].lines[j].external :
        j \in {k \in DOMAIN dockerPort[c].lines :
                  dockerPort[c].lines[k].sep = TCP_MARK
                  /\ dockerPort[c].lines[k].internal = p}}

DiscoveryEnded == op = "get_port_mappings" /\ pc = "idle"

\* C5: once get_port_mappings has ended, every eligible container for which the
\* runtime reports a binding of the service's public port has that host port as
\* high_port, and the result holds for it exactly (public_urlbase, that host port).
C5_HighPortIsPublicBinding ==
    DiscoveryEnded
    => \A c \in EligibleContainers :
          \A h \in ReportedFor(c, ServicePortsDict[container[c].service]) :
              /\ container[c].high_port = Some(h)
              /\ {m \in retval : m[1] = PublicUrlbase(c, container)}
                     = {<<PublicUrlbase(c, container), h>>}

\* C6: on an unchanged snapshot two consecutive generate_container_context calls
\* return the same entries in the same order.
C6_TwoGenerationsIdentical ==
    (Len(gens) = 2 /\ AllRunningExactlyOne)
    => /\ gens[1].raised = "" /\ gens[2].raised = ""
       /\ gens[1].value = gens[2].value

\* C7: a failing port query for one container is contained: every other eligible
\* container whose own query answers has its high_port persisted and a mapping
\* in the result.
C7_QueryFailureContained ==
    (DiscoveryEnded /\ \E f \in EligibleContainers : dockerPort[f].exit # 0)
    => \A c \in EligibleContainers :
          (dockerPort[c].exit = 0
           /\ \E j \in DOMAIN dockerPort[c].lines : dockerPort[c].lines[j].sep = TCP_MARK)
          => /\ container[c].high_port # None
             /\ \E m \in retval : m[1] = PublicUrlbase(c, container)

\* C8: while fill_template renders, the destination holds either the complete
\* previous content or the complete new content.
C8_DestinationNeverPartial ==
    pc # "idle"
    => (files[Destination] = before \/ files[Destination] = Complete(rendered))

\* the portmaps the proxy context must list for the mappings handed to Publish
PortmapsOf(mappings) == {[port |-> m[2], urlbase |-> m[1]] : m \in mappings}

\* C9: map_public_ports renders, then copies, then restarts: one copy and one
\* restart in a call that returns; a failing step ends the call with its
\* exception and no later step runs; what was written or copied stays; the
\* portmaps of the rendered context are exactly the mappings handed in.
C9_PublishStepsInOrder ==
    op = "map_public_ports"
    => /\ [i \in DOMAIN log |-> log[i].cmd]
              = SubSeq(<<"fill_template", "cp", "restart">>, 1, Len(log))
       /\ \A i \in DOMAIN log :
              ~log[i].ok => (i = Len(log) /\ pc = "idle"
                             /\ outcome \in {"RenderError", "CalledProcessError"})
       /\ outcome = "returned" <=> (Len(log) = 3 /\ \A i \in DOMAIN log : log[i].ok)
       /\ (Len(log) >= 1 /\ log[1].ok) => files[NGINX_DEST] = Complete(rendered)
       /\ (Len(log) >= 2 /\ log[2].ok) => files[NGINX_COPY] = Complete(rendered)
       /\ (args.given /\ (pc # "idle" \/ (Len(log) >= 1 /\ log[1].ok)))
          => /\ Len(rendered[1].context.portmaps) = Cardinality(args.mappings)
             /\ {rendered[1].context.portmaps[i] :
                    i \in DOMAIN rendered[1].context.portmaps} = PortmapsOf(args.mappings)

\* a Publish of {("/web", 32768)} has returned after render, copy and restart
C9_Witness ==
    /\ op = "map_public_ports"
    /\ outcome = "returned"
    /\ args = [given |-> TRUE, mappings |-> {<<"/web", 32768>>}]
    /\ rendered[1].context.portmaps = <<[port |-> 32768, urlbase |-> "/web"]>>
    /\ log = <<Step("fill_template", TRUE), Step("cp", TRUE), Step("restart", TRUE)>>

====
